---- MODULE Spec2Model ----
(***************************************************************************)
(* Model of employee_checkin.py: the local Event Log file                  *)
(* (time_entries.json), the remote mirror (Sheet1 of the spreadsheet) and  *)
(* the operations that N concurrent sessions run against them:             *)
(* handle_entry, handle_offline_entry, sync_to_google_sheets and the       *)
(* button handlers of main().                                              *)
(***************************************************************************)
EXTENDS Integers, Sequences, FiniteSets, Bags, TLC

\* ------------------------------------------------------------------ bounds
NumSessions == 2
MaxOps == 2
MaxBatch == 2
MaxSyncCalls == 1
MaxStep == 2
MaxDirOps == 2

Sessions == 1..NumSessions

\* ------------------------------------------------- call arity (Python def)
\* Number of positional parameters of each def, and the number of arguments
\* each call site in main() passes.  Python raises TypeError at the call,
\* before the body runs, when the two differ.
HandleEntryParams == 4
CheckArgs == 3
ManualEntryArgs == 3
GetServiceParams == 1
ResyncGetServiceArgs == 0
SyncParams == 3
ResyncSyncArgs == 2

CallOK(params, args) == params = args

\* --------------------------------------------------------------- the data
EmployeeData == [e \in {"e1"} |-> [name |-> "Ann", totpSecret |-> "JBSWY3DPEHPK3PXP"]]

EmployeeIds == {"e1", "e9"}
EntryTypes == {"in", "out"}
DirectTypes == {"in"}
NowValues == {"2024-01-01T09:00:00"}
\* What the callers of handle_offline_entry pass: a backdated entry, for a
\* known or an unknown employee.
OfflineTimestamps == {"2023-12-31T17:30:45"}
OfflineTypes == {"out"}

Header == <<"Employee ID", "Employee Name", "Timestamp", "Type">>

\* An entry dict that lacks a key holds MissingKey for it.
MissingKey == "<missing>"

\* datetime.fromisoformat(ts): TRUE when it parses, FALSE when it raises
\* ValueError.
FromIsoformatOK(ts) == ts \in {"2024-01-01T09:00:00", "2024-01-01T09:00:30", "2023-12-31T17:30:45"}

\* ts_object.strftime("%b %d %I:%M %p"): the seconds are dropped.
Strftime(ts) ==
    CASE ts = "2024-01-01T09:00:00" -> "Jan 01 09:00 AM"
      [] ts = "2024-01-01T09:00:30" -> "Jan 01 09:00 AM"
      [] ts = "2023-12-31T17:30:45" -> "Dec 31 05:30 PM"
      [] OTHER -> ts

\* str.capitalize()
Capitalize(t) ==
    CASE t = "in" -> "In"
      [] t = "out" -> "Out"
      [] OTHER -> t

\* The name lookup with the id itself as the default for a missing entry.
EmployeeNameDefaultId(employee_data, id) ==
    IF id \in DOMAIN employee_data THEN employee_data[id].name ELSE id

EmployeeName(employee_data, id) ==
    IF id \in DOMAIN employee_data THEN employee_data[id].name ELSE "Unknown"

\* One mirror row of sync_to_google_sheets, lines 85-104.
BuildRow(entry, employee_data) ==
    IF FromIsoformatOK(entry.timestamp)
    THEN <<entry.employeeId, EmployeeName(employee_data, entry.employeeId),
           Strftime(entry.timestamp), Capitalize(entry.type)>>
    ELSE <<entry.employeeId, EmployeeName(employee_data, entry.employeeId),
           entry.timestamp, IF entry.type = MissingKey THEN "N/A" ELSE entry.type>>

\* An exception of lines 85-104 that `except (ValueError, TypeError)` does
\* not catch, so that it reaches line 120: KeyError of entry["timestamp"]
\* (line 88), of entry["type"] (line 90, reached when the timestamp parses)
\* or of entry["employeeId"] (line 99).
RowRaises(entry) ==
    \/ entry.timestamp = MissingKey
    \/ FromIsoformatOK(entry.timestamp) /\ entry.type = MissingKey
    \/ entry.employeeId = MissingKey

BuildRows(time_entries, employee_data) ==
    [i \in 1..Len(time_entries) |-> BuildRow(time_entries[i], employee_data)]

\* values_to_send with the header staged whatever the sheet holds.
ValuesToSendHeaderAlways(is_empty, time_entries, employee_data) ==
    <<Header>> \o BuildRows(time_entries, employee_data)

\* values_to_send of sync_to_google_sheets, lines 80-104.
ValuesToSend(is_empty, time_entries, employee_data) ==
    (IF is_empty THEN <<Header>> ELSE <<>>) \o BuildRows(time_entries, employee_data)

\* The early return comparing with 1 whatever is_empty is.
NothingToSendHeaderOnly(is_empty, values_to_send) ==
    Len(values_to_send) = 1

\* The early return of line 106.
NothingToSend(is_empty, values_to_send) ==
    Len(values_to_send) = (IF is_empty THEN 1 ELSE 0)

\* ------------------------------------------------------------- TOTP gate
Steps == 0..MaxStep

\* The 6-digit code an authenticator shows for (secret, time step); the
\* empty text input is EmptyToken.
TotpCode(secret, step) == [secret |-> secret, step |-> step]
EmptyToken == [secret |-> "", step |-> -1]
Tokens == {EmptyToken} \cup {TotpCode(EmployeeData[e].totpSecret, st) : e \in DOMAIN EmployeeData, st \in Steps}

\* valid_totp called with a window that also takes the codes of the steps up
\* to two away from the current one.
ValidTotpWindowTwo(token, secret, now_step) ==
    \E st \in Steps :
        /\ token = TotpCode(secret, st)
        /\ st - now_step \in -2..2

\* onetimepass.valid_totp(token, secret) as called on lines 294 and 300:
\* the window argument is left at its default 0, so only the code of the
\* current time step is accepted.
ValidTotp(token, secret, now_step) ==
    token = TotpCode(secret, now_step)

\* The guard without its call of valid_totp.
CodeAcceptedUnvalidated(token, secret, now_step) ==
    token # EmptyToken

\* The guard of lines 294 and 300: `totp_token and valid_totp(...)`.
CodeAccepted(token, secret, now_step) ==
    token # EmptyToken /\ ValidTotp(token, secret, now_step)

\* ------------------------------------------------------------------ state
VARIABLES
    file,          \* time_entries.json: [entries, state]
    mirror,        \* Sheet1: the sequence of rows
    sess,          \* per session: the running operation and its locals
    nops,          \* operations started so far
    appended,      \* history: bag of entries whose save_time_entries returned
    resync_hist,   \* history: full resyncs completed in succession
    employee_file, \* employee_data.json: employee id -> [name, totpSecret]
    session_state, \* per session: st.session_state["employee_data"]
    new_employee_secret  \* per session: st.session_state.new_employee_secret

dirvars == <<employee_file, session_state, new_employee_secret>>

vars == <<file, mirror, sess, nops, appended, resync_hist,
          employee_file, session_state, new_employee_secret>>

\* The empty dict, and a session that has not run main() yet.
EmptyDict == [e \in {} |-> [name |-> "", totpSecret |-> ""]]
NotLoaded == [loaded |-> FALSE, employee_data |-> EmptyDict]

\* st.session_state.new_employee_secret = None, line 184.
NoSecret == ""

StaleRow == <<"e1", "Ann", "Jan 01 09:00 AM", "In">>
InitMirrors == {<<>>, <<Header, StaleRow>>}

\* A log left by earlier runs: absent, or holding one entry.
OldEntry == [employeeId |-> "e1", timestamp |-> "2024-01-01T09:00:00", type |-> "in"]
InitLogs == {<<>>, <<OldEntry>>}

Fresh ==
    [op |-> "none", pc |-> "idle", employee_id |-> "", entry_type |-> "",
     timestamp |-> "", time_entries |-> <<>>, to_sync |-> <<>>,
     values_to_send |-> <<>>, result |-> "none", outcome |-> "none",
     load_corrupt |-> FALSE, saved |-> FALSE, contacted |-> FALSE,
     token |-> EmptyToken, now_step |-> 0]

NoHist == [n |-> 0, first |-> <<>>, outcome |-> "none"]

Init ==
    /\ \E log \in InitLogs :
         /\ file = [entries |-> log, state |-> "json"]
         /\ appended = SetToBag({log[i] : i \in 1..Len(log)})
    /\ mirror \in InitMirrors
    /\ sess = [s \in Sessions |-> Fresh]
    /\ nops = 0
    /\ resync_hist = NoHist
    /\ employee_file = EmployeeData
    /\ session_state = [s \in Sessions |-> NotLoaded]
    /\ new_employee_secret = [s \in Sessions |-> NoSecret]

EntryOf(r) == [employeeId |-> r.employee_id, timestamp |-> r.timestamp, type |-> r.entry_type]

Idle(s) == sess[s].pc = "idle" /\ nops < MaxOps

\* load_time_entries, lines 44-52: a file that does not parse gives [].
FileParses == file.state = "json"
LoadTimeEntries == IF FileParses THEN file.entries ELSE <<>>

\* A report that ignores the success flag.
ReportIgnoringFlag(op, success) ==
    CASE op = "resync" -> "resync_success"
      [] op = "sync" -> "returned_true"
      [] OTHER -> "recorded_and_synced"

\* The outcome main() or handle_entry reports for a sync result.
Report(op, success) ==
    CASE op = "resync" -> (IF success THEN "resync_success" ELSE "resync_failed")
      [] op = "sync" -> (IF success THEN "returned_true" ELSE "returned_false")
      [] OTHER -> (IF success THEN "recorded_and_synced" ELSE "recorded_locally_sync_failed")

\* History kept for the claims about the full resync: how many resyncs have
\* ended in succession with no write to the log or the mirror in between, the
\* mirror the first of them left, and what the last of them reported.
HistAfterResync(outcome) ==
    [n |-> IF resync_hist.n = 0 THEN 1 ELSE 2,
     first |-> IF resync_hist.n = 0 THEN mirror' ELSE resync_hist.first,
     outcome |-> outcome]

\* A function returns or raises: its locals are gone, what the user was shown
\* (outcome) and the history flags stay.
Finished(r, outcome) ==
    [Fresh EXCEPT !.op = r.op, !.outcome = outcome, !.result = r.result,
                  !.load_corrupt = r.load_corrupt, !.saved = r.saved,
                  !.contacted = r.contacted]

\* handle_entry with steps 2 and 3 swapped: the sync first, no save before it.
EnterAppendSyncFirst(s, op, employee_id, entry_type, timestamp, token, now_step) ==
    LET r == [Fresh EXCEPT !.op = op, !.employee_id = employee_id,
                           !.entry_type = entry_type, !.timestamp = timestamp,
                           !.token = token, !.now_step = now_step]
    IN sess' = [sess EXCEPT ![s] =
                  [r EXCEPT !.pc = "sync_get", !.to_sync = <<EntryOf(r)>>]]

\* Lines 128-133 of handle_entry (147-149 of handle_offline_entry): build
\* the entry, load the log, append in memory; the save comes next.
EnterAppend(s, op, employee_id, entry_type, timestamp, token, now_step) ==
    LET r == [Fresh EXCEPT !.op = op, !.employee_id = employee_id,
                           !.entry_type = entry_type, !.timestamp = timestamp,
                           !.token = token, !.now_step = now_step]
    IN sess' = [sess EXCEPT ![s] =
                  [r EXCEPT !.pc = "save_open",
                            !.time_entries = Append(LoadTimeEntries, EntryOf(r)),
                            !.load_corrupt = ~FileParses]]

\* A call that raised before any effect: the session ends with `outcome`.
EndWith(s, op, employee_id, entry_type, token, now_step, outcome) ==
    sess' = [sess EXCEPT ![s] =
               [Fresh EXCEPT !.op = op, !.employee_id = employee_id,
                             !.entry_type = entry_type, !.token = token,
                             !.now_step = now_step, !.outcome = outcome]]

\* handle_entry called with its four arguments, for an employee of the
\* directory or for an id the directory does not hold.
HandleEntry(s) ==
    /\ Idle(s)
    /\ \E employee_id \in EmployeeIds, entry_type \in DirectTypes, now \in NowValues :
         EnterAppend(s, "handle_entry", employee_id, entry_type, now, EmptyToken, 0)
    /\ nops' = nops + 1
    /\ UNCHANGED <<file, mirror, appended, resync_hist>>
    /\ UNCHANGED dirvars

\* handle_offline_entry(employee_id, timestamp, entry_type).
HandleOfflineEntry(s) ==
    /\ Idle(s)
    /\ \E employee_id \in EmployeeIds, entry_type \in OfflineTypes, timestamp \in OfflineTimestamps :
         EnterAppend(s, "offline", employee_id, entry_type, timestamp, EmptyToken, 0)
    /\ nops' = nops + 1
    /\ UNCHANGED <<file, mirror, appended, resync_hist>>
    /\ UNCHANGED dirvars

\* save_time_entries, line 56: open(..., "w") truncates the file, or raises.
SaveOpen(s) ==
    /\ sess[s].pc = "save_open"
    /\ \E ok \in BOOLEAN :
         IF ok
         THEN /\ file' = [entries |-> <<>>, state |-> "empty"]
              /\ sess' = [sess EXCEPT ![s].pc = "save_dump"]
              /\ resync_hist' = NoHist
         ELSE /\ sess' = [sess EXCEPT ![s] = Finished(sess[s], "OSError")]
              /\ UNCHANGED <<file, resync_hist>>
    /\ UNCHANGED <<mirror, nops, appended>>
    /\ UNCHANGED dirvars

\* What json.dump leaves in the file (line 57).  When another session has
\* written since this one truncated, the two writers share the file: either
\* this dump covers the other one, or the bytes of both remain.
DumpResults(time_entries) ==
    IF file.state = "empty"
    THEN {[entries |-> time_entries, state |-> "json"]}
    ELSE {[entries |-> time_entries, state |-> "json"], [entries |-> <<>>, state |-> "torn"]}

SaveDump(s) ==
    /\ sess[s].pc = "save_dump"
    /\ file' \in DumpResults(sess[s].time_entries)
    /\ appended' = appended (+) SetToBag({EntryOf(sess[s])})
    /\ resync_hist' = NoHist
    /\ IF sess[s].op = "offline"
       THEN sess' = [sess EXCEPT ![s] = [Finished(sess[s], "saved_locally") EXCEPT !.saved = TRUE]]
       ELSE sess' = [sess EXCEPT ![s].pc = "sync_get", ![s].saved = TRUE,
                                 ![s].time_entries = <<>>,
                                 ![s].to_sync = <<EntryOf(sess[s])>>]
    /\ UNCHANGED <<mirror, nops>>
    /\ UNCHANGED dirvars

\* The results with success False (line 121): "error" for an exception of a
\* mirror call, "row_error" for one raised while the rows are built.
SyncErrors == {"error", "row_error"}

\* sync_to_google_sheets returns (success, message), lines 107, 118, 121.
Return(s, result) ==
    /\ sess' = [sess EXCEPT ![s] =
                  [Finished(sess[s], Report(sess[s].op, result \notin SyncErrors))
                     EXCEPT !.result = result, !.contacted = TRUE]]
    /\ resync_hist' = IF sess[s].op = "resync"
                      THEN HistAfterResync(Report(sess[s].op, result \notin SyncErrors))
                      ELSE IF mirror' # mirror THEN NoHist ELSE resync_hist

\* sync_to_google_sheets, lines 73-107: read the sheet, stage the rows.
SyncGet(s) ==
    /\ sess[s].pc = "sync_get"
    /\ \E ok \in BOOLEAN :
         IF ok
         THEN LET is_empty == mirror = <<>>
                  values_to_send == ValuesToSend(is_empty, sess[s].to_sync, EmployeeData)
              IN IF \E i \in DOMAIN sess[s].to_sync : RowRaises(sess[s].to_sync[i])
                 THEN /\ mirror' = mirror
                      /\ Return(s, "row_error")
                 ELSE IF NothingToSend(is_empty, values_to_send)
                 THEN /\ mirror' = mirror
                      /\ Return(s, "nothing_to_do")
                 ELSE /\ sess' = [sess EXCEPT ![s].pc = "sync_append",
                                              ![s].contacted = TRUE,
                                              ![s].values_to_send = values_to_send]
                      /\ UNCHANGED <<mirror, resync_hist>>
         ELSE /\ mirror' = mirror
              /\ Return(s, "error")
    /\ UNCHANGED <<file, nops, appended>>
    /\ UNCHANGED dirvars

\* sync_to_google_sheets, lines 109-121: one append call with the batch.
SyncAppend(s) ==
    /\ sess[s].pc = "sync_append"
    /\ \E ok \in BOOLEAN :
         IF ok
         THEN /\ mirror' = mirror \o sess[s].values_to_send
              /\ Return(s, "synced")
         ELSE /\ mirror' = mirror
              /\ Return(s, "error")
    /\ UNCHANGED <<file, nops, appended>>
    /\ UNCHANGED dirvars

\* main(), lines 293-303: the Check In / Check Out buttons.
MainCheck(s) ==
    /\ Idle(s)
    /\ \E employee_id \in DOMAIN EmployeeData, entry_type \in EntryTypes,
          token \in Tokens, now_step \in Steps, now \in NowValues :
         IF CodeAccepted(token, EmployeeData[employee_id].totpSecret, now_step)
         THEN IF CallOK(HandleEntryParams, CheckArgs)
              THEN EnterAppend(s, "check", employee_id, entry_type, now, token, now_step)
              ELSE EndWith(s, "check", employee_id, entry_type, token, now_step, "TypeError")
         ELSE EndWith(s, "check", employee_id, entry_type, token, now_step, "rejected")
    /\ nops' = nops + 1
    /\ UNCHANGED <<file, mirror, appended, resync_hist>>
    /\ UNCHANGED dirvars

\* main(), lines 219-224: the admin's Add Manual Entry button.
MainManualEntry(s) ==
    /\ Idle(s)
    /\ \E employee_id \in DOMAIN EmployeeData, entry_type \in EntryTypes, now \in NowValues :
         IF CallOK(HandleEntryParams, ManualEntryArgs)
         THEN EnterAppend(s, "manual", employee_id, entry_type, now, EmptyToken, 0)
         ELSE EndWith(s, "manual", employee_id, entry_type, EmptyToken, 0, "TypeError")
    /\ nops' = nops + 1
    /\ UNCHANGED <<file, mirror, appended, resync_hist>>
    /\ UNCHANGED dirvars

\* The try block with both calls given the arguments their defs take.
ResyncRaisesNowhere == "none"

\* Where the try block of lines 243-256 raises TypeError for a wrong number
\* of arguments: at the get_google_sheets_service() call, at the
\* sync_to_google_sheets(...) call, or nowhere.
ResyncRaisesAt ==
    IF ~CallOK(GetServiceParams, ResyncGetServiceArgs) THEN "get_service"
    ELSE IF ~CallOK(SyncParams, ResyncSyncArgs) THEN "sync"
    ELSE "none"

\* The button clearing the sheet and reporting success with no replay.
MainResyncClearOnly(s) ==
    /\ Idle(s)
    /\ LET time_entries == LoadTimeEntries
           r == [Fresh EXCEPT !.op = "resync", !.load_corrupt = ~FileParses]
       IN IF time_entries = <<>>
          THEN /\ sess' = [sess EXCEPT ![s] = [r EXCEPT !.outcome = "log_empty"]]
               /\ UNCHANGED <<mirror, resync_hist>>
          ELSE /\ mirror' = <<>>
               /\ sess' = [sess EXCEPT ![s] = [r EXCEPT !.outcome = "resync_success",
                                                        !.contacted = TRUE]]
               /\ resync_hist' = HistAfterResync("resync_success")
    /\ nops' = nops + 1
    /\ UNCHANGED <<file, appended>>
    /\ UNCHANGED dirvars

\* main(), lines 234-256: the admin's Clear Sheet and Sync All button.  The
\* page loads the log; with an empty log it shows no button.  An exception
\* in the try block is caught on line 255 and shown: a TypeError of a call
\* ("resync_type_error") or a failure of the clear call
\* ("resync_mirror_error").
MainResync(s) ==
    /\ Idle(s)
    /\ LET time_entries == LoadTimeEntries
           r == [Fresh EXCEPT !.op = "resync", !.load_corrupt = ~FileParses]
       IN IF time_entries = <<>>
          THEN /\ sess' = [sess EXCEPT ![s] = [r EXCEPT !.outcome = "log_empty"]]
               /\ UNCHANGED <<mirror, resync_hist>>
          ELSE IF ResyncRaisesAt = "get_service"
          THEN /\ sess' = [sess EXCEPT ![s] = [r EXCEPT !.outcome = "resync_type_error"]]
               /\ mirror' = mirror
               /\ resync_hist' = HistAfterResync("resync_type_error")
          ELSE \E ok \in BOOLEAN :
                 IF ~ok
                 THEN /\ sess' = [sess EXCEPT ![s] = [r EXCEPT !.outcome = "resync_mirror_error",
                                                               !.contacted = TRUE]]
                      /\ mirror' = mirror
                      /\ resync_hist' = HistAfterResync("resync_mirror_error")
                 ELSE /\ mirror' = <<>>
                      /\ IF ResyncRaisesAt = "sync"
                         THEN /\ sess' = [sess EXCEPT ![s] = [r EXCEPT !.outcome = "resync_type_error",
                                                                       !.contacted = TRUE]]
                              /\ resync_hist' = HistAfterResync("resync_type_error")
                         ELSE /\ sess' = [sess EXCEPT ![s] = [r EXCEPT !.pc = "sync_get",
                                                                       !.contacted = TRUE,
                                                                       !.to_sync = time_entries]]
                              /\ UNCHANGED resync_hist
    /\ nops' = nops + 1
    /\ UNCHANGED <<file, appended>>
    /\ UNCHANGED dirvars

\* The functions of the module as concurrent sessions run them.
Next ==
    \E s \in Sessions :
        \/ HandleEntry(s)
        \/ HandleOfflineEntry(s)
        \/ SaveOpen(s)
        \/ SaveDump(s)
        \/ SyncGet(s)
        \/ SyncAppend(s)
        \/ MainResync(s)

Spec == Init /\ [][Next]_vars

\* sync_to_google_sheets called on its own with any batch of entries.
SyncEntries ==
    {[employeeId |-> "e1", timestamp |-> "2024-01-01T09:00:00", type |-> "in"],
     [employeeId |-> "e1", timestamp |-> "2024-01-01T09:00:30", type |-> "out"],
     [employeeId |-> "e9", timestamp |-> "yesterday", type |-> "out"],
     [employeeId |-> "e1", timestamp |-> MissingKey, type |-> "in"]}

Batches == UNION {[1..n -> SyncEntries] : n \in 0..MaxBatch}

SyncCall(s) ==
    /\ sess[s].pc = "idle"
    /\ nops < MaxSyncCalls
    /\ \E time_entries \in Batches :
         sess' = [sess EXCEPT ![s] = [Fresh EXCEPT !.op = "sync", !.pc = "sync_get",
                                                   !.to_sync = time_entries]]
    /\ nops' = nops + 1
    /\ UNCHANGED <<file, mirror, appended, resync_hist>>
    /\ UNCHANGED dirvars

NextSync ==
    \E s \in Sessions :
        \/ SyncCall(s)
        \/ SyncGet(s)
        \/ SyncAppend(s)

SpecSync == Init /\ [][NextSync]_vars

\* The button handlers of main().
NextMain ==
    \E s \in Sessions :
        \/ MainCheck(s)
        \/ MainManualEntry(s)
        \/ MainResync(s)

SpecMain == Init /\ [][NextMain]_vars

\* ------------------------------------------------- the employee directory
\* What the admin types into the Add Employee form and the Update Name
\* field, and what secrets.token_bytes(20) can produce (lines 188-189).
FormIds == {"", "e1", "e2"}
FormNames == {"Bob"}
Secrets == {"JBSWY3DPEHPK3PXP", "KRSXG5CTMVRXEZLU"}

Put(d, k, v) == [x \in DOMAIN d \cup {k} |-> IF x = k THEN v ELSE d[x]]
Remove(d, k) == [x \in DOMAIN d \ {k} |-> d[x]]

\* load_employee_data, lines 27-35: the parsed file.
LoadEmployeeData == employee_file

\* main(), lines 158-162: the first run of the script in a session loads the
\* directory into st.session_state; later runs of the session reuse it.
MainLoad(s) ==
    /\ ~session_state[s].loaded
    /\ session_state' = [session_state EXCEPT
                            ![s] = [loaded |-> TRUE, employee_data |-> LoadEmployeeData]]
    /\ UNCHANGED <<file, mirror, sess, nops, appended, resync_hist,
                   employee_file, new_employee_secret>>

\* save_employee_data, lines 38-41: the whole dict replaces the file and the
\* session's copy.
SaveEmployeeData(s, data) ==
    /\ employee_file' = data
    /\ session_state' = [session_state EXCEPT ![s].employee_data = data]

\* main(), lines 186-192: the Generate TOTP Secret button.
GenerateSecret(s) ==
    /\ session_state[s].loaded
    /\ \E employee_id \in FormIds, employee_name \in FormNames, secret \in Secrets :
         IF employee_id # "" /\ employee_name # ""
         THEN new_employee_secret' = [new_employee_secret EXCEPT ![s] = secret]
         ELSE UNCHANGED new_employee_secret
    /\ UNCHANGED <<file, mirror, sess, nops, appended, resync_hist,
                   employee_file, session_state>>

\* main(), lines 194-214: the Save Employee button, shown while a secret is
\* held.  The id is looked up in the session's copy of the directory.
SaveEmployee(s) ==
    /\ session_state[s].loaded
    /\ new_employee_secret[s] # NoSecret
    /\ nops < MaxDirOps
    /\ \E employee_id \in FormIds, employee_name \in FormNames :
         LET employee_data == session_state[s].employee_data
             secret == new_employee_secret[s]
         IN IF employee_id = "" \/ employee_id \in DOMAIN employee_data
            THEN UNCHANGED dirvars
            ELSE /\ SaveEmployeeData(s, Put(employee_data, employee_id,
                                           [name |-> employee_name, totpSecret |-> secret]))
                 /\ new_employee_secret' = [new_employee_secret EXCEPT ![s] = NoSecret]
    /\ nops' = nops + 1
    /\ UNCHANGED <<file, mirror, sess, appended, resync_hist>>

\* main(), lines 262-269: the Update Name button of one employee of the
\* session's copy; the field starts with the current name.
UpdateName(s) ==
    /\ session_state[s].loaded
    /\ nops < MaxDirOps
    /\ LET employee_data == session_state[s].employee_data
       IN \E employee_id \in DOMAIN employee_data :
            \E new_name \in FormNames \cup {employee_data[employee_id].name} :
               SaveEmployeeData(s, [employee_data EXCEPT ![employee_id].name = new_name])
    /\ nops' = nops + 1
    /\ UNCHANGED <<file, mirror, sess, appended, resync_hist, new_employee_secret>>

\* The Delete Employee button, were it to drop the employee's entries from
\* the log as well.
DeleteEmployeePurgingLog(s) ==
    /\ session_state[s].loaded
    /\ nops < MaxDirOps
    /\ LET employee_data == session_state[s].employee_data
       IN \E employee_id \in DOMAIN employee_data :
            /\ SaveEmployeeData(s, Remove(employee_data, employee_id))
            /\ file' = [file EXCEPT !.entries =
                           SelectSeq(file.entries, LAMBDA e : e.employeeId # employee_id)]
    /\ nops' = nops + 1
    /\ UNCHANGED <<mirror, sess, appended, resync_hist, new_employee_secret>>

\* main(), lines 270-274: the Delete Employee button.
DeleteEmployee(s) ==
    /\ session_state[s].loaded
    /\ nops < MaxDirOps
    /\ LET employee_data == session_state[s].employee_data
       IN \E employee_id \in DOMAIN employee_data :
            SaveEmployeeData(s, Remove(employee_data, employee_id))
    /\ nops' = nops + 1
    /\ UNCHANGED <<file, mirror, sess, appended, resync_hist, new_employee_secret>>

\* The admin pages that add and rename employees, from any session.
NextAdmin ==
    \E s \in Sessions :
        \/ MainLoad(s)
        \/ GenerateSecret(s)
        \/ SaveEmployee(s)
        \/ UpdateName(s)

SpecAdmin == Init /\ [][NextAdmin]_vars

\* All the admin's directory actions.
NextDir ==
    \E s \in Sessions :
        \/ MainLoad(s)
        \/ GenerateSecret(s)
        \/ SaveEmployee(s)
        \/ UpdateName(s)
        \/ DeleteEmployee(s)

SpecDir == Init /\ [][NextDir]_vars

\* ------------------------------------------------------------- properties
Occurrences(seq, x) == Cardinality({i \in DOMAIN seq : seq[i] = x})

Appending(s) == sess[s].pc \in {"save_open", "save_dump"}

CheckActions == {"check", "manual"}
RecordedOutcomes == {"recorded_and_synced", "recorded_locally_sync_failed"}

\* C1: once no session is inside a load / append / save cycle, the log holds
\* as many entries as it started with plus one per append that completed,
\* and every appended entry is in it (no lost update).
C1_NoLostUpdate ==
    (\A s \in Sessions : ~Appending(s)) =>
        /\ Len(file.entries) = BagCardinality(appended)
        /\ \A e \in BagToSet(appended) : Occurrences(file.entries, e) = CopiesIn(e, appended)

\* C2: a Check In / Check Out click whose code is empty or is not valid ends
\* rejected, with the log and the mirror as they were and no mirror call.
C2_RejectedLeavesNoTrace ==
    [][\A s \in Sessions :
          (/\ sess'[s] # sess[s]
           /\ sess'[s].op = "check"
           /\ sess[s].pc = "idle"
           /\ \/ sess'[s].token = EmptyToken
              \/ ~ValidTotp(sess'[s].token, EmployeeData[sess'[s].employee_id].totpSecret,
                            sess'[s].now_step))
          => /\ sess'[s].outcome = "rejected"
             /\ sess'[s].pc = "idle"
             /\ ~sess'[s].contacted
             /\ file' = file
             /\ mirror' = mirror]_vars

C2_Witness ==
    \E s \in Sessions :
        /\ sess[s].op = "check"
        /\ sess[s].outcome = "rejected"
        /\ sess[s].token # EmptyToken
        /\ file.entries # <<>>

\* C3: a check action whose code validates, or an admin manual entry, has
\* appended its entry when it ends: it reports the entry as recorded and its
\* save has completed.
C3_AcceptedActionRecords ==
    \A s \in Sessions :
        (/\ sess[s].op \in CheckActions
         /\ sess[s].pc = "idle"
         /\ \/ sess[s].op = "manual"
            \/ sess[s].token = TotpCode(EmployeeData[sess[s].employee_id].totpSecret,
                                        sess[s].now_step))
        => /\ sess[s].saved
           /\ sess[s].outcome \in RecordedOutcomes

\* C4: a session whose load found a log that does not parse stops with a
\* failure: it never goes on to save a list built from an empty log.
C4_CorruptLoadSurfaces ==
    \A s \in Sessions :
        sess[s].load_corrupt => (~Appending(s) /\ ~sess[s].saved)

\* C5: in a check action the save of the new entry has completed before the
\* mirror is contacted and before the entry is reported as recorded; when the
\* save raises, the mirror is not contacted and nothing is reported recorded.
AppendAndSyncOps == {"handle_entry", "check", "manual"}

C5_SaveBeforeSync ==
    \A s \in Sessions :
        sess[s].op \in AppendAndSyncOps =>
            /\ sess[s].contacted => sess[s].saved
            /\ sess[s].pc \in {"sync_get", "sync_append"} => sess[s].saved
            /\ sess[s].outcome \in RecordedOutcomes => sess[s].saved
            /\ sess[s].outcome = "OSError" =>
                  (~sess[s].saved /\ ~sess[s].contacted /\ sess[s].pc = "idle")

C5_Witness ==
    /\ \E s \in Sessions :
          sess[s].op = "handle_entry" /\ sess[s].contacted /\ sess[s].saved
    /\ \E s \in Sessions :
          sess[s].op = "handle_entry" /\ sess[s].outcome = "OSError"

\* C6: a step of sync_to_google_sheets never writes the log; when the mirror
\* read or append fails it returns (False, reason), the mirror is as it was,
\* and handle_entry reports the entry as recorded locally but not synced.
InSync(s) == sess[s].pc \in {"sync_get", "sync_append"}

C6_SyncFailureIsDegraded ==
    [][\A s \in Sessions :
          (InSync(s) /\ sess'[s] # sess[s]) =>
             /\ file' = file
             /\ sess'[s].saved = sess[s].saved
             /\ sess'[s].pc \in {"sync_append", "idle"}
             /\ (sess'[s].pc = "idle" /\ mirror' = mirror /\ sess[s].pc = "sync_append") =>
                    sess'[s].result = "error"
             /\ sess'[s].result = "error" =>
                    /\ mirror' = mirror
                    /\ sess'[s].pc = "idle"
                    /\ sess[s].op = "handle_entry" =>
                          sess'[s].outcome = "recorded_locally_sync_failed"]_vars

C6_Witness ==
    \E s \in Sessions :
        /\ sess[s].op = "handle_entry"
        /\ sess[s].result = "error"
        /\ sess[s].outcome = "recorded_locally_sync_failed"
        /\ sess[s].saved
        /\ file.entries # <<>>

\* The mirror a full resync is to leave: the header, then one row per log
\* entry in log order.
FullMirror(time_entries, employee_data) ==
    <<Header>> \o BuildRows(time_entries, employee_data)

MirrorFailures == {"resync_failed", "resync_mirror_error"}

RowCopiesRecorded(row) ==
    LET es == {e \in BagToSet(appended) : BuildRow(e, EmployeeData) = row}
        n[S \in SUBSET es] ==
            IF S = {} THEN 0
            ELSE LET e == CHOOSE x \in S : TRUE IN CopiesIn(e, appended) + n[S \ {e}]
    IN n[es]

C10_EmptyBatchNoAppend ==
    [][\A s \in Sessions :
          (/\ sess[s].op = "sync"
           /\ sess[s].pc = "sync_get"
           /\ sess[s].to_sync = <<>>
           /\ mirror # <<>>
           /\ sess'[s] # sess[s]
           /\ sess'[s].result # "error")
          => /\ sess'[s].pc = "idle"
             /\ sess'[s].result = "nothing_to_do"
             /\ sess'[s].outcome = "returned_true"
             /\ mirror' = mirror]_vars

C10_Witness ==
    \E s \in Sessions :
        /\ sess[s].op = "sync"
        /\ sess[s].result = "nothing_to_do"
        /\ mirror # <<>>

\* C11: in a batch, an entry whose timestamp does not parse or that is
\* malformed in another way gives one row of its raw values, and the other
\* entries are staged with it: no entry makes the sync return an error.
Malformed(entry) == ~FromIsoformatOK(entry.timestamp)

RawRow(entry, employee_data) ==
    <<entry.employeeId, EmployeeName(employee_data, entry.employeeId),
      IF entry.timestamp = MissingKey THEN "INVALID_TIMESTAMP" ELSE entry.timestamp,
      IF entry.type = MissingKey THEN "N/A" ELSE entry.type>>

StagedRows(r) ==
    IF r.values_to_send # <<>> /\ r.values_to_send[1] = Header
    THEN Tail(r.values_to_send) ELSE r.values_to_send

C11_MalformedEntryKeepsBatch ==
    [][\A s \in Sessions :
          (/\ sess[s].op = "sync"
           /\ sess[s].pc = "sync_get"
           /\ sess'[s] # sess[s]
           /\ sess'[s].result # "error"
           /\ \E i \in DOMAIN sess[s].to_sync : Malformed(sess[s].to_sync[i]))
          => /\ sess'[s].pc = "sync_append"
             /\ Len(StagedRows(sess'[s])) = Len(sess[s].to_sync)
             /\ \A i \in DOMAIN sess[s].to_sync :
                   StagedRows(sess'[s])[i] =
                      IF Malformed(sess[s].to_sync[i])
                      THEN RawRow(sess[s].to_sync[i], EmployeeData)
                      ELSE BuildRow(sess[s].to_sync[i], EmployeeData)]_vars

\* The distance in time steps between the step a code was generated for and
\* the step at which it is presented.
StepsAway(token, now_step) ==
    IF token.step >= now_step THEN token.step - now_step ELSE now_step - token.step

\* A step of session s that is a Check In / Check Out click with a code
\* generated from the employee's own secret.
ClickWithOwnCode(s) ==
    /\ sess'[s] # sess[s]
    /\ sess[s].pc = "idle"
    /\ sess'[s].op = "check"
    /\ sess'[s].token # EmptyToken
    /\ sess'[s].token.secret = EmployeeData[sess'[s].employee_id].totpSecret

\* C12: the gate of a check click lets the code of the current time step
\* through (the click is not rejected) and rejects a code generated more than
\* one step away from the current step, leaving log and mirror as they were.
C12_GateCurrentStepOnly ==
    [][\A s \in Sessions :
          ClickWithOwnCode(s) =>
             /\ StepsAway(sess'[s].token, sess'[s].now_step) = 0 =>
                    sess'[s].outcome # "rejected"
             /\ StepsAway(sess'[s].token, sess'[s].now_step) > 1 =>
                    /\ sess'[s].outcome = "rejected"
                    /\ file' = file
                    /\ mirror' = mirror]_vars

C12_Witness ==
    \E s, t \in Sessions :
        /\ sess[s].op = "check"
        /\ sess[s].token.secret = EmployeeData[sess[s].employee_id].totpSecret
        /\ StepsAway(sess[s].token, sess[s].now_step) = 0
        /\ sess[s].outcome # "rejected"
        /\ sess[t].op = "check"
        /\ sess[t].token = TotpCode(EmployeeData[sess[t].employee_id].totpSecret, 0)
        /\ sess[t].now_step = 2
        /\ sess[t].outcome = "rejected"

\* C13: the gate of a check click also lets through a code generated for the
\* step just before or just after the current one: such a click is not
\* rejected.
C13_AdjacentStepAccepted ==
    [][\A s \in Sessions :
          (ClickWithOwnCode(s) /\ StepsAway(sess'[s].token, sess'[s].now_step) = 1)
             => sess'[s].outcome # "rejected"]_vars

\* A step in which session s had its Save Employee accepted: the held secret
\* is cleared (line 213) and the id it added is new to the session's copy.
AddedIds(s) ==
    IF new_employee_secret[s] # NoSecret /\ new_employee_secret'[s] = NoSecret
    THEN DOMAIN session_state'[s].employee_data \ DOMAIN session_state[s].employee_data
    ELSE {}

\* C14: no add, rename or save from any session changes the secret stored
\* for an employee id of the directory file, and no Save Employee is accepted
\* for an id the directory file already holds.
C14_SecretImmutable ==
    [][/\ \A id \in DOMAIN employee_file \cap DOMAIN employee_file' :
             employee_file'[id].totpSecret = employee_file[id].totpSecret
       /\ \A s \in Sessions : AddedIds(s) \cap DOMAIN employee_file = {}]_vars

\* C17: a Delete Employee or Update Name click leaves the log file as it was:
\* the entries recorded for the employee stay where they are, field for field.
C17_DirectoryChangeKeepsLog ==
    [][(employee_file' # employee_file) => (file' = file)]_vars

C17_Witness ==
    /\ "e1" \notin DOMAIN employee_file
    /\ \E i \in DOMAIN file.entries : file.entries[i].employeeId = "e1"

\* The ids at which two directories differ.
ChangedIds(d1, d2) ==
    {id \in DOMAIN d1 \cup DOMAIN d2 :
        \/ id \notin DOMAIN d1
        \/ id \notin DOMAIN d2
        \/ d1[id] # d2[id]}

\* C18: a directory save carries the one mutation of its click and keeps what
\* other sessions committed before it: it changes the directory file at one
\* employee id at most.
C18_SaveKeepsOtherMutations ==
    [][Cardinality(ChangedIds(employee_file, employee_file')) <= 1]_vars

\* A step of session s that is the read-and-stage part of an incremental
\* sync and does not end in an error.
StagingStep(s) ==
    /\ sess[s].op = "sync"
    /\ sess[s].pc = "sync_get"
    /\ sess'[s] # sess[s]
    /\ sess'[s].result \notin SyncErrors

\* What an incremental sync has staged: on an empty mirror the header first,
\* then one row per entry in input order.
StagedHeaderThenRows(s) ==
    LET v == sess'[s].values_to_send
        h == IF mirror = <<>> THEN 1 ELSE 0
    IN /\ sess'[s].pc = "sync_append"
       /\ Len(v) = h + Len(sess[s].to_sync)
       /\ (h = 1) => (v[1] = Header)
       /\ \A i \in DOMAIN sess[s].to_sync :
             v[h + i] = BuildRow(sess[s].to_sync[i], EmployeeData)

UnknownId(id) == id \notin DOMAIN EmployeeData

\* C16: an entry for an employee id the directory does not hold goes the way
\* of any entry: handle_entry and handle_offline_entry stage it at the end of
\* the loaded log, and the sync that follows the save of handle_entry stages
\* and appends the row <<id, "Unknown", ...>> unless a mirror call fails.
C16_UnknownIdRecordedAndSynced ==
    [][\A s \in Sessions :
          /\ (/\ sess[s].pc = "idle"
              /\ sess'[s].op \in {"handle_entry", "offline"}
              /\ sess'[s] # sess[s]
              /\ UnknownId(sess'[s].employee_id))
             => /\ sess'[s].pc = "save_open"
                /\ sess'[s].time_entries # <<>>
                /\ sess'[s].time_entries[Len(sess'[s].time_entries)] = EntryOf(sess'[s])
          /\ (/\ sess[s].op = "handle_entry"
              /\ sess[s].pc = "sync_get"
              /\ sess'[s] # sess[s]
              /\ UnknownId(sess[s].employee_id)
              /\ sess'[s].result # "error")
             => /\ sess[s].saved
                /\ sess'[s].pc = "sync_append"
                /\ LET row == sess'[s].values_to_send[Len(sess'[s].values_to_send)]
                   IN row[1] = sess[s].employee_id /\ row[2] = "Unknown"
          /\ (/\ sess[s].op = "handle_entry"
              /\ sess[s].pc = "sync_append"
              /\ UnknownId(sess[s].employee_id)
              /\ sess'[s].result = "synced")
             => /\ sess'[s].outcome = "recorded_and_synced"
                /\ mirror' # <<>>
                /\ mirror'[Len(mirror')][1] = sess[s].employee_id
                /\ mirror'[Len(mirror')][2] = "Unknown"]_vars

C16_Witness ==
    /\ \E i \in DOMAIN file.entries : UnknownId(file.entries[i].employeeId)
    /\ \E i \in DOMAIN mirror : mirror[i][1] = "e9" /\ mirror[i][2] = "Unknown"
    /\ \E s \in Sessions :
          /\ sess[s].op = "handle_entry"
          /\ sess[s].outcome = "recorded_and_synced"

\* C19: whatever the interleaving of syncs and full resyncs, a mirror that is
\* not empty has the header as its first row and nowhere else.
C19_OneHeaderFirst ==
    (mirror # <<>>) => (mirror[1] = Header /\ Occurrences(mirror, Header) = 1)

\* The rows of the mirror that are rows of entries of the log.
LoggedRows(rows) ==
    Cardinality({i \in DOMAIN rows :
                    \E j \in DOMAIN file.entries :
                       rows[i] = BuildRow(file.entries[j], EmployeeData)})

\* What the admin is shown when a full resync fails (st.error, lines 253, 256).
ResyncFailures == {"resync_failed", "resync_mirror_error", "resync_type_error"}

====
